---------------------------- MODULE Spec2Model ----------------------------
(***************************************************************************)
(* Model of Transformation-Notebook.py: the notebook reads five CSV files  *)
(* into DataFrames, cleans them, writes them to /mnt/cleansed-data, joins, *)
(* aggregates, ranks, pivots and enriches them, and writes eleven tables   *)
(* to /mnt/confirmed-data.                                                 *)
(*                                                                         *)
(* A DataFrame is [cols |-> set of column names, rows |-> sequence of      *)
(* rows], a row being a function from the column names to values.  A null  *)
(* cell is NullS in a string column and NullN in a numeric column.         *)
(* Cells hold values of the type of their column: a string column holds    *)
(* strings, a numeric column non-negative integers.                        *)
(* The notebook is a straight-line program: pc is the index of the next    *)
(* statement in Stages, err is the exception that ended the run, if any.   *)
(* The DataFrame methods the notebook calls are modelled by what PySpark   *)
(* does: dropDuplicates groups nulls with nulls; fillna(dict) resolves the *)
(* keys of the dict against the schema; withColumnRenamed is a no-op on a  *)
(* name that is no column; a join condition is not true of a null key;     *)
(* rank() and sum() over a window ordered without an explicit frame use    *)
(* RANGE BETWEEN UNBOUNDED PRECEDING AND CURRENT ROW; write.parquet        *)
(* without a mode raises when the path exists.                             *)
(***************************************************************************)
EXTENDS Integers, Sequences, FiniteSets, TLC

VARIABLES
    files,          \* /mnt/raw-data: table name -> parsed CSV content
    nb,             \* the notebook's namespace: variable name -> DataFrame
    storage,        \* output path -> [exists, cols, rows]
    pc,             \* index in Stages of the next statement
    err,            \* "none", or the error that aborted the run
    run,            \* number of the current run of the notebook
    cleared,        \* a storage location was cleared between two runs
    snapshot,       \* storage as the previous run left it
    writtenThisRun  \* paths written by the current run

vars == <<files, nb, storage, pc, err, run, cleared, snapshot, writtenThisRun>>

(***************************************************************************)
(* Bounds of the model.                                                    *)
(***************************************************************************)
MaxRows == 3
MaxRuns == 2

(***************************************************************************)
(* Values.                                                                 *)
(***************************************************************************)
NullS == "<null>"
NullN == -1

NumericCols ==
    {"Gold", "Silver", "Bronze", "Total", "Rank by Total", "Female", "Male",
     "count", "Rank", "CumulativeMedals"}

NullOf(c) == IF c \in NumericCols THEN NullN ELSE NullS

EmptyDF == [cols |-> {}, rows |-> <<>>]

NoFile == [exists |-> FALSE, cols |-> {}, rows |-> <<>>]

RECURSIVE SumSeq(_)
SumSeq(s) == IF s = <<>> THEN 0 ELSE Head(s) + SumSeq(Tail(s))

\* The rows of s without the later copies of a row already seen.
RECURSIVE Dedup(_)
Dedup(s) ==
    IF s = <<>> THEN <<>>
    ELSE LET init == Dedup(SubSeq(s, 1, Len(s) - 1))
             last == s[Len(s)]
         IN  IF \E i \in 1..Len(init) : init[i] = last
             THEN init ELSE Append(init, last)

RECURSIVE Flatten(_)
Flatten(ss) == IF ss = <<>> THEN <<>> ELSE Head(ss) \o Flatten(Tail(ss))

SeqsUpTo(S, n) == UNION {[1..k -> S] : k \in 0..n}

Column(df, c) == [i \in 1..Len(df.rows) |-> df.rows[i][c]]

\* Number of rows of a sequence equal to r.
Count(rows, r) == Cardinality({i \in 1..Len(rows) : rows[i] = r})

\* The row r restricted to the columns cs.
Project(r, cs) == [c \in cs |-> r[c]]

(***************************************************************************)
(* DataFrame operators used by the Data Cleaning cell.                     *)
(***************************************************************************)

\* For comparison: the statement without dropDuplicates().
KeepDuplicates(df) == df

\* DataFrame.dropDuplicates(): one row per group of rows equal on every
\* column, nulls grouping with nulls.
DropDuplicates(df) == [df EXCEPT !.rows = Dedup(df.rows)]

\* For comparison: a fillna that skips the keys that are no column.
FillnaIgnoresMissing(df, m) == TRUE

\* DataFrame.fillna(dict) resolves every key of the dict against the schema
\* and raises an AnalysisException for a key that is no column.
FillnaResolves(df, m) == DOMAIN m \subseteq df.cols

\* DataFrame.fillna(dict): a null in a column of the dict becomes its default.
FillRow(r, m) ==
    [c \in DOMAIN r |-> IF c \in DOMAIN m /\ r[c] = NullOf(c) THEN m[c] ELSE r[c]]

Fillna(df, m) ==
    [df EXCEPT !.rows = [i \in 1..Len(df.rows) |-> FillRow(df.rows[i], m)]]

\* DataFrame.withColumnRenamed(old, new): a no-op when old is no column.
WithColumnRenamed(df, old, new) ==
    IF old \notin df.cols THEN df
    ELSE LET cs == (df.cols \ {old}) \cup {new}
         IN  [cols |-> cs,
              rows |-> [i \in 1..Len(df.rows) |->
                          [c \in cs |-> IF c = new THEN df.rows[i][old]
                                        ELSE df.rows[i][c]]]]

\* The fill defaults and the rename of each statement of the cell.
FillMap(name) ==
    CASE name = "athletes_df" ->
           ("Country" :> "Unknown") @@ ("Discipline" :> "Unknown")
      [] name = "coaches_df" ->
           ("Country" :> "Unknown") @@ ("Discipline" :> "Unknown")
             @@ ("Event" :> "Unknown")
      [] name = "entries_gender_df" ->
           ("Female" :> 0) @@ ("Male" :> 0) @@ ("Total" :> 0)
      [] name = "medals_df" ->
           ("TeamCountry" :> "Unknown") @@ ("Gold" :> 0) @@ ("Silver" :> 0)
             @@ ("Bronze" :> 0) @@ ("Total" :> 0) @@ ("Rank by Total" :> 0)
      [] name = "team_df" ->
           ("Discipline" :> "Unknown") @@ ("Country" :> "Unknown")
             @@ ("Event" :> "Unknown")

\* <<old, new>>, or <<>> for the statement without a rename.
Rename(name) ==
    CASE name = "athletes_df" -> <<"Country", "AthleteCountry">>
      [] name = "coaches_df" -> <<"Country", "CoachCountry">>
      [] name = "entries_gender_df" -> <<>>
      [] name = "medals_df" -> <<"TeamCountry", "MedalCountry">>
      [] name = "team_df" -> <<"Country", "TeamCountry">>

\* The value of one cleaning statement whose fillna resolved.
Cleaned(name, df) ==
    LET filled == Fillna(DropDuplicates(df), FillMap(name))
    IN  IF Rename(name) = <<>> THEN filled
        ELSE WithColumnRenamed(filled, Rename(name)[1], Rename(name)[2])

(***************************************************************************)
(* Joining DataFrames.                                                     *)
(***************************************************************************)

\* The name of right column c in the joined table: Spark keeps both columns
\* of a clashing name apart by their origin, the model by the alias.
RightName(L, alias, c) == IF c \in L.cols THEN alias \o "." \o c ELSE c

JoinCols(L, R, alias) == L.cols \cup {RightName(L, alias, d) : d \in R.cols}

JoinRow(L, R, alias, l, r) ==
    [c \in JoinCols(L, R, alias) |->
        IF c \in L.cols THEN l[c]
        ELSE r[CHOOSE d \in R.cols : RightName(L, alias, d) = c]]

NullRow(R) == [d \in R.cols |-> NullOf(d)]

\* The rows of R whose key equals v; a null key equals nothing.
Matches(R, rkey, v) ==
    SelectSeq(R.rows, LAMBDA r : v # NullS /\ r[rkey] # NullS /\ r[rkey] = v)

\* For comparison: the output rows of one left row under an inner join.
InnerFanOut(L, R, lkey, rkey, alias, l) ==
    LET m == Matches(R, rkey, l[lkey])
    IN  [i \in 1..Len(m) |-> JoinRow(L, R, alias, l, m[i])]

\* The output rows of one left row: one per match, or one null-extended row.
FanOut(L, R, lkey, rkey, alias, l) ==
    LET m == Matches(R, rkey, l[lkey])
    IN  IF m = <<>> THEN <<JoinRow(L, R, alias, l, NullRow(R))>>
        ELSE [i \in 1..Len(m) |-> JoinRow(L, R, alias, l, m[i])]

\* L.join(R, L[lkey] == R[rkey], 'left')
LeftJoin(L, R, lkey, rkey, alias) ==
    [cols |-> JoinCols(L, R, alias),
     rows |-> Flatten([i \in 1..Len(L.rows) |->
                          FanOut(L, R, lkey, rkey, alias, L.rows[i])])]

JoinResolves(L, R, lkey, rkey) == lkey \in L.cols /\ rkey \in R.cols

(***************************************************************************)
(* Aggregations.                                                           *)
(***************************************************************************)

\* The distinct values of a column, in order of first appearance.
Keys(df, key) == Dedup(Column(df, key))

\* The rows of a partition, in the order of the DataFrame.
Partition(df, key, v) == SelectSeq(df.rows, LAMBDA r : r[key] = v)

\* df.groupBy(key).count()
GroupCount(df, key) ==
    LET ks == Keys(df, key)
    IN  [cols |-> {key, "count"},
         rows |-> [i \in 1..Len(ks) |->
                     (key :> ks[i]) @@ ("count" :> Len(Partition(df, key, ks[i])))]]

(***************************************************************************)
(* Window functions.                                                       *)
(***************************************************************************)

SortedDesc(p, by) == \A i \in 1..(Len(p) - 1) : p[i][by] >= p[i + 1][by]

\* The orders of a partition that orderBy(by.desc()) may produce: ties in
\* any order.
SortedOrders(p, by) ==
    LET n == Len(p)
        perms == {f \in [1..n -> 1..n] : \A i, j \in 1..n : f[i] = f[j] => i = j}
    IN  {q \in {[i \in 1..n |-> p[f[i]]] : f \in perms} : SortedDesc(q, by)}

\* The orders in which the window visits the rows: partition by partition,
\* each partition sorted.
RECURSIVE WindowOrdersOf(_, _, _, _)
WindowOrdersOf(df, key, by, ks) ==
    IF ks = <<>> THEN {<<>>}
    ELSE {a \o b : a \in SortedOrders(Partition(df, key, Head(ks)), by),
                   b \in WindowOrdersOf(df, key, by, Tail(ks))}

WindowOrders(df, key, by) == WindowOrdersOf(df, key, by, Keys(df, key))

\* For comparison: dense_rank() at position i of a sorted partition p.
RECURSIVE DenseRankAt(_, _, _)
DenseRankAt(p, by, i) ==
    IF i = 1 THEN 1
    ELSE IF p[i][by] = p[i - 1][by] THEN DenseRankAt(p, by, i - 1)
         ELSE DenseRankAt(p, by, i - 1) + 1

\* rank() at position i of a sorted partition p: the position of the first
\* row of i's group of peers.
RECURSIVE RankAt(_, _, _)
RankAt(p, by, i) ==
    IF i = 1 THEN 1
    ELSE IF p[i][by] = p[i - 1][by] THEN RankAt(p, by, i - 1)
         ELSE i

\* For comparison: ROWS BETWEEN UNBOUNDED PRECEDING AND CURRENT ROW.
RowsFrame(p, by, i) == SubSeq(p, 1, i)

\* The frame of position i under an orderBy without an explicit frame:
\* RANGE BETWEEN UNBOUNDED PRECEDING AND CURRENT ROW, the rows up to the
\* last peer of i.
Frame(p, by, i) ==
    LET last == CHOOSE j \in i..Len(p) :
                   /\ p[j][by] = p[i][by]
                   /\ \A k \in (j + 1)..Len(p) : p[k][by] # p[i][by]
    IN  SubSeq(p, 1, last)

\* sum(c) over a sequence of rows: nulls are skipped, and the sum of no
\* value is null.
SumCol(rows, c) ==
    LET vals == SelectSeq([i \in 1..Len(rows) |-> rows[i][c]], LAMBDA v : v # NullN)
    IN  IF vals = <<>> THEN NullN ELSE SumSeq(vals)

\* The partition of row i of ord and i's position in it; ord lists each
\* partition contiguously.
PartitionOf(ord, key, i) == SelectSeq(ord, LAMBDA r : r[key] = ord[i][key])

PositionIn(ord, key, i) == Cardinality({j \in 1..i : ord[j][key] = ord[i][key]})

\* medals_df.withColumn('Rank', rank().over(window_spec)), rows in order ord
WithRank(df, ord, key, by) ==
    [cols |-> df.cols \cup {"Rank"},
     rows |-> [i \in 1..Len(ord) |->
                 ord[i] @@ ("Rank" :> RankAt(PartitionOf(ord, key, i), by,
                                              PositionIn(ord, key, i)))]]

\* medals_df.withColumn('CumulativeMedals', _sum('Total').over(window_spec))
WithCumulative(df, ord, key, by) ==
    [cols |-> df.cols \cup {"CumulativeMedals"},
     rows |-> [i \in 1..Len(ord) |->
                 ord[i] @@ ("CumulativeMedals" :>
                    SumCol(Frame(PartitionOf(ord, key, i), by,
                                 PositionIn(ord, key, i)), by))]]

(***************************************************************************)
(* Pivot and unpivot.                                                      *)
(***************************************************************************)
MedalTypes == <<"Gold", "Silver", "Bronze">>

\* medals_df.groupBy('MedalCountry').agg(sum Gold, sum Silver, sum Bronze)
\*          .fillna(0)
PivotSums(df) ==
    LET ks == Keys(df, "MedalCountry")
        agg == [cols |-> {"MedalCountry", "Gold", "Silver", "Bronze"},
                rows |-> [i \in 1..Len(ks) |->
                   LET p == Partition(df, "MedalCountry", ks[i])
                   IN  [c \in {"MedalCountry", "Gold", "Silver", "Bronze"} |->
                          IF c = "MedalCountry" THEN ks[i] ELSE SumCol(p, c)]]]
    IN  [agg EXCEPT !.rows = [i \in 1..Len(agg.rows) |->
           [c \in agg.cols |-> IF c # "MedalCountry" /\ agg.rows[i][c] = NullN
                               THEN 0 ELSE agg.rows[i][c]]]]

\* For comparison: a stack that pairs the labels Silver and Bronze with the
\* other column.
StackSwapped(r) ==
    <<[MedalCountry |-> r["MedalCountry"], Medal |-> "Gold", Count |-> r["Gold"]],
      [MedalCountry |-> r["MedalCountry"], Medal |-> "Silver", Count |-> r["Bronze"]],
      [MedalCountry |-> r["MedalCountry"], Medal |-> "Bronze", Count |-> r["Silver"]]>>

\* stack(3, 'Gold', Gold, 'Silver', Silver, 'Bronze', Bronze) as (Medal, Count)
Stack(r) ==
    <<[MedalCountry |-> r["MedalCountry"], Medal |-> "Gold", Count |-> r["Gold"]],
      [MedalCountry |-> r["MedalCountry"], Medal |-> "Silver", Count |-> r["Silver"]],
      [MedalCountry |-> r["MedalCountry"], Medal |-> "Bronze", Count |-> r["Bronze"]]>>

Unpivot(df) ==
    [cols |-> {"MedalCountry", "Medal", "Count"},
     rows |-> Flatten([i \in 1..Len(df.rows) |-> Stack(df.rows[i])])]

(***************************************************************************)
(* User-defined function and string operation.                             *)
(***************************************************************************)
categorize_region(country) ==
    IF country \in {"USA", "Canada", "Mexico"} THEN "North America"
    ELSE IF country \in {"UK", "France", "Germany"} THEN "Europe"
    ELSE "Other"

\* upper() on the strings of the model; upper(null) is null.
upper(s) ==
    CASE s = "Unknown" -> "UNKNOWN"
      [] s = "Canada" -> "CANADA"
      [] s = "France" -> "FRANCE"
      [] s = "USA" -> "USA"
      [] s = NullS -> NullS

\* df.withColumn(new, ...), vals the values of the new column row by row
WithColumn(df, new, vals) ==
    [cols |-> df.cols \cup {new},
     rows |-> [i \in 1..Len(df.rows) |-> df.rows[i] @@ (new :> vals[i])]]

(***************************************************************************)
(* The notebook: its statements in program order.                          *)
(***************************************************************************)
Stmt(op, df, path) == [op |-> op, df |-> df, path |-> path]

ReadStages ==
    <<Stmt("Read", "medals_df", "/mnt/raw-data/Medals.csv"),
      Stmt("Read", "entries_gender_df", "/mnt/raw-data/EntriesGender.csv"),
      Stmt("Read", "coaches_df", "/mnt/raw-data/Coaches.csv"),
      Stmt("Read", "athletes_df", "/mnt/raw-data/Athletes.csv"),
      Stmt("Read", "team_df", "/mnt/raw-data/Teams.csv")>>

CleanStages ==
    <<Stmt("Clean", "athletes_df", ""),
      Stmt("Clean", "coaches_df", ""),
      Stmt("Clean", "entries_gender_df", ""),
      Stmt("Clean", "medals_df", ""),
      Stmt("Clean", "team_df", "")>>

CleansedStages ==
    <<Stmt("WriteCleansed", "athletes_df", "/mnt/cleansed-data/Athletes.parquet"),
      Stmt("WriteCleansed", "coaches_df", "/mnt/cleansed-data/Coaches.parquet"),
      Stmt("WriteCleansed", "entries_gender_df", "/mnt/cleansed-data/EntriesGender.parquet"),
      Stmt("WriteCleansed", "medals_df", "/mnt/cleansed-data/Medals.parquet"),
      Stmt("WriteCleansed", "team_df", "/mnt/cleansed-data/Team.parquet")>>

DeriveStages ==
    <<Stmt("Join", "", ""), Stmt("Aggregate", "", ""), Stmt("Window", "", ""),
      Stmt("Pivot", "", "")>>

EnrichStages == <<Stmt("Region", "", ""), Stmt("Upper", "", "")>>

ConfirmedStages ==
    <<Stmt("WriteConfirmed", "athletes_df", "/mnt/confirmed-data/athletes_df"),
      Stmt("WriteConfirmed", "athletes_medals_df", "/mnt/confirmed-data/athletes_medals_df"),
      Stmt("WriteConfirmed", "coaches_df", "/mnt/confirmed-data/coaches_df"),
      Stmt("WriteConfirmed", "cumulative_medals_df", "/mnt/confirmed-data/cumulative_medals_df"),
      Stmt("WriteConfirmed", "entries_gender_df", "/mnt/confirmed-data/entries_gender_df"),
      Stmt("WriteConfirmed", "medals_df", "/mnt/confirmed-data/medals_df"),
      Stmt("WriteConfirmed", "medals_per_country", "/mnt/confirmed-data/medals_per_country"),
      Stmt("WriteConfirmed", "participants_per_discipline", "/mnt/confirmed-data/participants_per_discipline"),
      Stmt("WriteConfirmed", "pivot_df", "/mnt/confirmed-data/pivot_df"),
      Stmt("WriteConfirmed", "ranked_df", "/mnt/confirmed-data/ranked_df"),
      Stmt("WriteConfirmed", "team_df", "/mnt/confirmed-data/team_df")>>

\* For comparison: the notebook with the enrichment cells moved before the
\* cleansed-data writes.
StagesEnrichFirst ==
    ReadStages \o CleanStages \o EnrichStages \o CleansedStages \o DeriveStages
      \o ConfirmedStages

Stages ==
    ReadStages \o CleanStages \o CleansedStages \o DeriveStages \o EnrichStages
      \o ConfirmedStages

RawPaths == {ReadStages[i].path : i \in 1..Len(ReadStages)}
CleansedPaths == {CleansedStages[i].path : i \in 1..Len(CleansedStages)}
ConfirmedPaths == {ConfirmedStages[i].path : i \in 1..Len(ConfirmedStages)}
OutputPaths == CleansedPaths \cup ConfirmedPaths

Names ==
    {"medals_df", "entries_gender_df", "coaches_df", "athletes_df", "team_df",
     "athletes_medals_df", "athletes_medals_entries_df", "full_df", "final_df",
     "medals_per_country", "participants_per_discipline", "ranked_df",
     "cumulative_medals_df", "pivot_df", "unpivot_df"}

Done == pc = Len(Stages) + 1 /\ err = "none"
Aborted == err # "none"
AtStage(op) == err = "none" /\ pc \in 1..Len(Stages) /\ Stages[pc].op = op
Cur == Stages[pc]

\* The first statement with the given operation and DataFrame.
StageOf(op, df) == CHOOSE i \in 1..Len(Stages) : Stages[i].op = op /\ Stages[i].df = df

File(df) == [exists |-> TRUE, cols |-> df.cols, rows |-> df.rows]

\* For comparison: an exception that is recorded while the run goes on.
RaiseAndGoOn(e) ==
    /\ err' = e
    /\ pc' = pc + 1
    /\ UNCHANGED <<files, nb, storage, run, cleared, snapshot, writtenThisRun>>

\* An exception leaves the statement: nothing catches it, the run ends at pc.
Raise(e) ==
    /\ err' = e
    /\ UNCHANGED <<files, nb, storage, pc, run, cleared, snapshot, writtenThisRun>>

\* The statement assigned the variables of bind and the run goes on.
Assign(bind) ==
    /\ nb' = [n \in Names |-> IF n \in DOMAIN bind THEN bind[n] ELSE nb[n]]
    /\ pc' = pc + 1
    /\ UNCHANGED <<files, storage, err, run, cleared, snapshot, writtenThisRun>>

\* spark.read.csv(path, header=True, inferSchema=True)
Read ==
    /\ AtStage("Read")
    /\ Assign(Cur.df :> files[Cur.path])

\* df.dropDuplicates().fillna({...}).withColumnRenamed(old, new)
Clean ==
    /\ AtStage("Clean")
    /\ IF FillnaResolves(nb[Cur.df], FillMap(Cur.df))
       THEN Assign(Cur.df :> Cleaned(Cur.df, nb[Cur.df]))
       ELSE Raise("SchemaError")

\* df.write.parquet(path): the default save mode raises when the path exists.
WriteCleansed ==
    /\ AtStage("WriteCleansed")
    /\ IF storage[Cur.path].exists
       THEN Raise("PathAlreadyExists")
       ELSE /\ storage' = [storage EXCEPT ![Cur.path] = File(nb[Cur.df])]
            /\ writtenThisRun' = writtenThisRun \cup {Cur.path}
            /\ pc' = pc + 1
            /\ UNCHANGED <<files, nb, err, run, cleared, snapshot>>

\* The four chained left joins; final_df.show() runs them.
Join ==
    /\ AtStage("Join")
    /\ IF /\ JoinResolves(nb["athletes_df"], nb["medals_df"], "AthleteCountry", "MedalCountry")
          /\ JoinResolves(nb["athletes_df"], nb["entries_gender_df"], "Discipline", "Discipline")
          /\ JoinResolves(nb["athletes_df"], nb["coaches_df"], "Discipline", "Discipline")
          /\ JoinResolves(nb["athletes_df"], nb["team_df"], "Discipline", "Discipline")
       THEN LET am  == LeftJoin(nb["athletes_df"], nb["medals_df"],
                                "AthleteCountry", "MedalCountry", "medals_df")
                ame == LeftJoin(am, nb["entries_gender_df"],
                                "Discipline", "Discipline", "entries_gender_df")
                ful == LeftJoin(ame, nb["coaches_df"],
                                "Discipline", "Discipline", "coaches_df")
                fin == LeftJoin(ful, nb["team_df"],
                                "Discipline", "Discipline", "team_df")
            IN  Assign(("athletes_medals_df" :> am)
                         @@ ("athletes_medals_entries_df" :> ame)
                         @@ ("full_df" :> ful) @@ ("final_df" :> fin))
       ELSE Raise("SchemaError")

Aggregate ==
    /\ AtStage("Aggregate")
    /\ Assign(("medals_per_country" :> GroupCount(nb["medals_df"], "MedalCountry"))
                @@ ("participants_per_discipline" :>
                      GroupCount(nb["athletes_df"], "Discipline")))

\* ranked_df and cumulative_medals_df are two evaluations of the window:
\* each may order tied rows its own way.
WindowFunctions ==
    /\ AtStage("Window")
    /\ \E o1, o2 \in WindowOrders(nb["medals_df"], "MedalCountry", "Total") :
         Assign(("ranked_df" :> WithRank(nb["medals_df"], o1, "MedalCountry", "Total"))
                  @@ ("cumulative_medals_df" :>
                        WithCumulative(nb["medals_df"], o2, "MedalCountry", "Total")))

Pivot ==
    /\ AtStage("Pivot")
    /\ LET pv == PivotSums(nb["medals_df"])
       IN  Assign(("pivot_df" :> pv) @@ ("unpivot_df" :> Unpivot(pv)))

Region ==
    /\ AtStage("Region")
    /\ Assign("athletes_df" :>
                WithColumn(nb["athletes_df"], "Region",
                           [i \in 1..Len(nb["athletes_df"].rows) |->
                              categorize_region(nb["athletes_df"].rows[i]["AthleteCountry"])]))

UpperCountry ==
    /\ AtStage("Upper")
    /\ Assign("athletes_df" :>
                WithColumn(nb["athletes_df"], "UpperCountry",
                           [i \in 1..Len(nb["athletes_df"].rows) |->
                              upper(nb["athletes_df"].rows[i]["AthleteCountry"])]))

\* df.write.mode('overwrite').parquet(path)
WriteConfirmed ==
    /\ AtStage("WriteConfirmed")
    /\ storage' = [storage EXCEPT ![Cur.path] = File(nb[Cur.df])]
    /\ writtenThisRun' = writtenThisRun \cup {Cur.path}
    /\ pc' = pc + 1
    /\ UNCHANGED <<files, nb, err, run, cleared, snapshot>>

\* The error of a statement that fails for a reason outside the notebook: an
\* unreadable source file, an unwritable destination, a failed job.
FaultOf(op) ==
    CASE op = "Read" -> "SourceReadError"
      [] op \in {"WriteCleansed", "WriteConfirmed"} -> "WriteError"
      [] OTHER -> "JobError"

\* The statement at pc fails.  A failed overwrite may already have removed
\* what its own path held.
StageFails ==
    /\ err = "none" /\ pc \in 1..Len(Stages)
    /\ err' = FaultOf(Cur.op)
    /\ \E lost \in BOOLEAN :
         storage' = IF lost /\ Cur.op = "WriteConfirmed"
                    THEN [storage EXCEPT ![Cur.path] = NoFile] ELSE storage
    /\ UNCHANGED <<files, nb, pc, run, cleared, snapshot, writtenThisRun>>

\* The notebook is run again after a completed run, with the cleansed-data
\* location cleared first or not.
Rerun ==
    /\ Done
    /\ run < MaxRuns
    /\ \E clear \in BOOLEAN :
         /\ storage' = [p \in OutputPaths |->
                          IF clear /\ p \in CleansedPaths THEN NoFile ELSE storage[p]]
         /\ cleared' = (cleared \/ clear)
    /\ snapshot' = storage
    /\ run' = run + 1
    /\ pc' = 1
    /\ nb' = [n \in Names |-> EmptyDF]
    /\ writtenThisRun' = {}
    /\ UNCHANGED <<files, err>>

Steps ==
    \/ Read
    \/ Clean
    \/ WriteCleansed
    \/ Join
    \/ Aggregate
    \/ WindowFunctions
    \/ Pivot
    \/ Region
    \/ UpperCountry
    \/ WriteConfirmed

Next ==
    \/ Steps
    \/ StageFails
    \/ Rerun

(***************************************************************************)
(* Input files.                                                            *)
(***************************************************************************)
AthleteRow(c, d) == [Country |-> c, Discipline |-> d]
CoachRow(c, d, e) == [Country |-> c, Discipline |-> d, Event |-> e]
EntriesRow(d, f, m, t) == [Discipline |-> d, Female |-> f, Male |-> m, Total |-> t]
TeamRow(d, c, e) == [Discipline |-> d, Country |-> c, Event |-> e]
MedalRow(c, g, t) ==
    ("TeamCountry" :> c) @@ ("Gold" :> g) @@ ("Silver" :> 1) @@ ("Bronze" :> 2)
      @@ ("Total" :> t) @@ ("Rank by Total" :> NullN)

AthleteCols == {"Country", "Discipline"}
CoachCols == {"Country", "Discipline", "Event"}
EntriesCols == {"Discipline", "Female", "Male", "Total"}
TeamCols == {"Discipline", "Country", "Event"}
MedalCols == {"TeamCountry", "Gold", "Silver", "Bronze", "Total", "Rank by Total"}

Table(cols, rows) == [cols |-> cols, rows |-> rows]

\* A file without column c.
Without(df, c) ==
    [cols |-> df.cols \ {c},
     rows |-> [i \in 1..Len(df.rows) |-> Project(df.rows[i], df.cols \ {c})]]

SampleAthletes ==
    Table(AthleteCols, <<AthleteRow("USA", "Judo"), AthleteRow(NullS, NullS)>>)
SampleCoaches ==
    Table(CoachCols, <<CoachRow("USA", "Judo", NullS), CoachRow("France", "Judo", "Men")>>)
SampleEntries ==
    Table(EntriesCols, <<EntriesRow("Judo", 1, NullN, 1)>>)
SampleTeams ==
    Table(TeamCols, <<TeamRow("Judo", "USA", "Men")>>)
SampleMedals ==
    Table(MedalCols, <<MedalRow("USA", 1, 2), MedalRow("USA", 1, 2)>>)

Inputs(medals, entries, coaches, athletes, teams) ==
    ("/mnt/raw-data/Medals.csv" :> medals)
      @@ ("/mnt/raw-data/EntriesGender.csv" :> entries)
      @@ ("/mnt/raw-data/Coaches.csv" :> coaches)
      @@ ("/mnt/raw-data/Athletes.csv" :> athletes)
      @@ ("/mnt/raw-data/Teams.csv" :> teams)

\* The state before the first statement of the first run, the output
\* locations empty.
Start ==
    /\ nb = [n \in Names |-> EmptyDF]
    /\ storage = [p \in OutputPaths |-> NoFile]
    /\ pc = 1
    /\ err = "none"
    /\ run = 1
    /\ cleared = FALSE
    /\ snapshot = [p \in OutputPaths |-> NoFile]
    /\ writtenThisRun = {}

\* Files whose schema may lack the column a rename names.
SmallMedalRows == {MedalRow("USA", 1, 2), MedalRow(NullS, NullN, 1)}

Init ==
    /\ \E missing \in SUBSET {"medals_df", "coaches_df", "athletes_df", "team_df"},
          rows \in SeqsUpTo(SmallMedalRows, MaxRows) :
         LET drop(df, n, c) == IF n \in missing THEN Without(df, c) ELSE df
         IN  files = Inputs(drop(Table(MedalCols, rows), "medals_df", "TeamCountry"),
                            SampleEntries,
                            drop(SampleCoaches, "coaches_df", "Country"),
                            drop(SampleAthletes, "athletes_df", "Country"),
                            drop(SampleTeams, "team_df", "Country"))
    /\ Start

Spec == Init /\ [][Next]_vars

\* Medals files of every content, the other files fixed.  The rows hold
\* nulls beside the fill defaults, equal Totals on different rows, and
\* three countries.
MedalRows ==
    {MedalRow("USA", 1, 2), MedalRow("USA", 0, 2), MedalRow("USA", 0, 1),
     MedalRow("USA", NullN, 1), MedalRow("USA", 1, 1),
     MedalRow("Unknown", 0, 1), MedalRow(NullS, 0, 1), MedalRow(NullS, 1, 2),
     MedalRow("Canada", NullN, NullN)}

InitMedals ==
    /\ \E rows \in SeqsUpTo(MedalRows, MaxRows) :
         files = Inputs(Table(MedalCols, rows), SampleEntries, SampleCoaches,
                        SampleAthletes, SampleTeams)
    /\ Start

SpecMedals == InitMedals /\ [][Steps]_vars

\* Athletes files of every content, joined with right-hand tables that hold
\* no, one or several matches of a key.
AthleteRows ==
    {AthleteRow("USA", "Judo"), AthleteRow("USA", NullS), AthleteRow(NullS, "Judo"),
     AthleteRow("Unknown", "Judo"), AthleteRow(NullS, NullS)}

JoinMedals == <<MedalRow("USA", 1, 2), MedalRow("USA", 0, 1)>>
JoinCoaches == <<CoachRow("USA", "Judo", NullS), CoachRow("France", NullS, "Men")>>
JoinEntries == <<EntriesRow("Judo", 1, NullN, 1), EntriesRow(NullS, 1, 1, 2)>>
JoinTeams == <<TeamRow("Judo", "USA", "Men"), TeamRow("Judo", "France", "Men")>>

InitJoin ==
    /\ \E rows \in SeqsUpTo(AthleteRows, MaxRows), km, kc \in 1..Len(JoinMedals) :
         files = Inputs(Table(MedalCols, SubSeq(JoinMedals, 1, km)),
                        Table(EntriesCols, JoinEntries),
                        Table(CoachCols, SubSeq(JoinCoaches, 1, kc)),
                        Table(AthleteCols, rows),
                        Table(TeamCols, JoinTeams))
    /\ Start

SpecJoin == InitJoin /\ [][Steps]_vars

(***************************************************************************)
(* Properties.                                                             *)
(***************************************************************************)
Past(op, df) == pc > StageOf(op, df)

CleanedNames == {CleanStages[i].df : i \in 1..Len(CleanStages)}
RenamedNames == {n \in CleanedNames : Rename(n) # <<>>}
PathOf(n) == Stages[StageOf("Read", n)].path

\* The name a column of the fill map has after the rename.
CleanedName(n, c) ==
    IF Rename(n) # <<>> /\ Rename(n)[1] = c THEN Rename(n)[2] ELSE c

NoDuplicateRows(df) ==
    \A i, j \in 1..Len(df.rows) : df.rows[i] = df.rows[j] => i = j

NoMappedNull(n, df) ==
    \A c \in DOMAIN FillMap(n), i \in 1..Len(df.rows) :
        df.rows[i][CleanedName(n, c)] # NullOf(c)

\* The same rows, each as many times, in any order.
SameRows(a, b) ==
    /\ Len(a) = Len(b)
    /\ \A i \in 1..Len(a) : Count(a, a[i]) = Count(b, a[i])

SameContent(f, g) ==
    /\ f.exists = g.exists
    /\ f.cols = g.cols
    /\ SameRows(f.rows, g.rows)

\* C1: every cleaned table holds no two equal rows and no null in a column
\* of its fill map.
C1_CleanedHasNoDuplicateNoNull ==
    \A n \in CleanedNames :
        Past("Clean", n) => NoDuplicateRows(nb[n]) /\ NoMappedNull(n, nb[n])

\* C2: a second run on the same input files, no storage location cleared,
\* is not stopped by the notebook itself, and when it has completed every
\* output path holds what the first run left there, up to row order.
C2_RerunIsIdempotent ==
    (run >= 2 /\ ~cleared) =>
        /\ err # "PathAlreadyExists"
        /\ Done => \A p \in OutputPaths : SameContent(storage[p], snapshot[p])

\* C3: a statement that fails ends the run at that statement: pc stays, no
\* variable is assigned and every output the run wrote before stays as it
\* is; after the failure no statement of the run executes and no output is
\* written.
C3_ErrorAbortsRun ==
    [][/\ (err = "none" /\ err' # "none") =>
             /\ pc' = pc /\ run' = run /\ nb' = nb
             /\ writtenThisRun' = writtenThisRun
             /\ \A p \in writtenThisRun : storage'[p] = storage[p]
       /\ (err # "none") => UNCHANGED vars]_vars

C3_Witness ==
    /\ err \in {"WriteError", "JobError"}
    /\ "/mnt/cleansed-data/Team.parquet" \in writtenThisRun
    /\ "/mnt/confirmed-data/athletes_df" \in writtenThisRun
    /\ \A p \in writtenThisRun : storage[p].exists

\* C4: when the file of a renaming statement lacks the column the rename
\* names, the run never gets past that cleaning statement, and an error of
\* the statement itself is a SchemaError.
C4_MissingRenameSourceFailsCleaning ==
    \A n \in RenamedNames :
        Rename(n)[1] \notin files[PathOf(n)].cols =>
            /\ pc <= StageOf("Clean", n)
            /\ (pc = StageOf("Clean", n) /\ err \notin {"none", "JobError"})
                 => err = "SchemaError"

C4_Witness ==
    /\ "Country" \notin files[PathOf("team_df")].cols
    /\ "Country" \in files[PathOf("athletes_df")].cols
    /\ pc = StageOf("Clean", "team_df")
    /\ err = "SchemaError"
    /\ nb["team_df"] = files[PathOf("team_df")]

\* The cleaned Athletes table: athletes_df without the columns added later.
AthleteKeyCols == {"AthleteCountry", "Discipline"}
CleanedAthletes ==
    [cols |-> AthleteKeyCols,
     rows |-> [i \in 1..Len(nb["athletes_df"].rows) |->
                 Project(nb["athletes_df"].rows[i], AthleteKeyCols)]]

\* The four joins: left, right, result, keys, alias of the right table.
Link(l, r, j, lk, rk) == [left |-> l, right |-> r, out |-> j, lkey |-> lk, rkey |-> rk]
Chain ==
    <<Link("athletes_df", "medals_df", "athletes_medals_df", "AthleteCountry", "MedalCountry"),
      Link("athletes_medals_df", "entries_gender_df", "athletes_medals_entries_df", "Discipline", "Discipline"),
      Link("athletes_medals_entries_df", "coaches_df", "full_df", "Discipline", "Discipline"),
      Link("full_df", "team_df", "final_df", "Discipline", "Discipline")>>

LeftOf(k) == IF k = 1 THEN CleanedAthletes ELSE nb[Chain[k].left]

NMatches(R, rkey, v) ==
    IF v = NullS THEN 0
    ELSE Cardinality({j \in 1..Len(R.rows) : R.rows[j][rkey] = v})

\* The rows of J that extend the left row l.
Extending(J, L, l) == SelectSeq(J.rows, LAMBDA o : Project(o, L.cols) = l)

KeepsLeftRows(k) ==
    LET L == LeftOf(k)
        R == nb[Chain[k].right]
        J == nb[Chain[k].out]
    IN  /\ Len(J.rows) >= Len(L.rows)
        /\ J.cols = L.cols \cup {RightName(L, Chain[k].right, d) : d \in R.cols}
        /\ \A i \in 1..Len(L.rows) :
             LET l == L.rows[i]
                 n == NMatches(R, Chain[k].rkey, l[Chain[k].lkey])
                 out == Extending(J, L, l)
             IN  /\ Len(out) = Count(L.rows, l) * (IF n = 0 THEN 1 ELSE n)
                 /\ n = 0 => \A o \in 1..Len(out), d \in R.cols :
                       out[o][RightName(L, Chain[k].right, d)] = NullOf(d)
        /\ \A i \in 1..Len(CleanedAthletes.rows) :
             \E o \in 1..Len(J.rows) :
                Project(J.rows[o], AthleteKeyCols) = CleanedAthletes.rows[i]

\* C5: each of the four left joins keeps every left row: a left row with n
\* matches appears n times, one without a match once with the right columns
\* null; every cleaned Athletes row appears in every result, and the row
\* count never falls along the chain.
C5_LeftJoinsKeepEveryAthlete ==
    Past("Join", "") => \A k \in 1..Len(Chain) : KeepsLeftRows(k)

C5_Witness ==
    /\ Past("Join", "")
    /\ \E i, j \in 1..Len(CleanedAthletes.rows) :
         /\ NMatches(nb["medals_df"], "MedalCountry",
                     CleanedAthletes.rows[i]["AthleteCountry"]) = 0
         /\ NMatches(nb["medals_df"], "MedalCountry",
                     CleanedAthletes.rows[j]["AthleteCountry"]) > 1
    /\ Len(nb["athletes_medals_df"].rows) > Len(CleanedAthletes.rows)
    /\ Len(nb["final_df"].rows) > Len(nb["athletes_medals_df"].rows)
    /\ \E o \in 1..Len(nb["final_df"].rows) :
         /\ nb["final_df"].rows[o]["team_df.Discipline"] = NullS
         /\ nb["final_df"].rows[o]["CoachCountry"] = "France"

\* The rows of the cleaned Medals table with a greater Total in the
\* partition of row r.
Greater(r) ==
    {j \in 1..Len(nb["medals_df"].rows) :
        /\ nb["medals_df"].rows[j]["MedalCountry"] = r["MedalCountry"]
        /\ nb["medals_df"].rows[j]["Total"] > r["Total"]}

MedalsOf(df) ==
    [i \in 1..Len(df.rows) |-> Project(df.rows[i], nb["medals_df"].cols)]

\* C6: ranked_df is the cleaned Medals table with one more column, Rank,
\* which is 1 plus the number of rows of the partition with a greater
\* Total; so a greater Total has a smaller Rank and equal Totals equal Ranks.
C6_RankCountsGreaterTotals ==
    Past("Window", "") =>
        LET rk == nb["ranked_df"]
        IN  /\ rk.cols = nb["medals_df"].cols \cup {"Rank"}
            /\ SameRows(MedalsOf(rk), nb["medals_df"].rows)
            /\ \A i \in 1..Len(rk.rows) :
                 rk.rows[i]["Rank"] = 1 + Cardinality(Greater(rk.rows[i]))
            /\ \A i, j \in 1..Len(rk.rows) :
                 rk.rows[i]["MedalCountry"] = rk.rows[j]["MedalCountry"] =>
                   /\ rk.rows[i]["Total"] > rk.rows[j]["Total"]
                        => rk.rows[i]["Rank"] < rk.rows[j]["Rank"]
                   /\ rk.rows[i]["Total"] = rk.rows[j]["Total"]
                        => rk.rows[i]["Rank"] = rk.rows[j]["Rank"]

C6_Witness ==
    /\ Past("Window", "")
    /\ \E i, j, k \in 1..Len(nb["ranked_df"].rows) :
         /\ i # j
         /\ nb["ranked_df"].rows[i]["Rank"] = 1
         /\ nb["ranked_df"].rows[j]["Rank"] = 1
         /\ nb["ranked_df"].rows[k]["Rank"] = 3
         /\ nb["ranked_df"].rows[i]["MedalCountry"] = nb["ranked_df"].rows[k]["MedalCountry"]
         /\ nb["ranked_df"].rows[j]["MedalCountry"] = nb["ranked_df"].rows[k]["MedalCountry"]

PartitionTotal(c) ==
    SumSeq(Column([cols |-> {}, rows |-> Partition(nb["medals_df"], "MedalCountry", c)],
                  "Total"))

\* C7: in cumulative_medals_df, a row that is last in a Total-descending
\* order of its partition (no row of the partition has a smaller Total; in
\* particular the row the window visited last) holds the sum of Total over
\* the partition as CumulativeMedals.
C7_LastCumulativeIsPartitionSum ==
    Past("Window", "") =>
        LET cm == nb["cumulative_medals_df"]
        IN  \A i \in 1..Len(cm.rows) :
              (\A j \in 1..Len(cm.rows) :
                  cm.rows[j]["MedalCountry"] = cm.rows[i]["MedalCountry"]
                    => cm.rows[j]["Total"] >= cm.rows[i]["Total"])
              => cm.rows[i]["CumulativeMedals"]
                   = PartitionTotal(cm.rows[i]["MedalCountry"])

C7_Witness ==
    /\ Past("Window", "")
    /\ \E i, j, k \in 1..Len(nb["cumulative_medals_df"].rows) :
         LET r == nb["cumulative_medals_df"].rows
         IN  /\ i < j /\ k < i
             /\ r[i]["MedalCountry"] = r[j]["MedalCountry"]
             /\ r[k]["MedalCountry"] = r[j]["MedalCountry"]
             /\ r[i]["Total"] = r[j]["Total"]
             /\ r[k]["Total"] > r[j]["Total"]
             /\ r[i] # r[j]

\* C8: unpivot_df holds three rows per country of the cleaned Medals table,
\* labelled Gold, Silver, Bronze in that order; summing Count per country
\* and label gives back the column of pivot_df, which is the sum of that
\* column over the country's cleaned Medals rows.
C8_UnpivotRoundTrip ==
    Past("Pivot", "") =>
        LET pv == nb["pivot_df"]
            up == nb["unpivot_df"]
            countries == {nb["medals_df"].rows[i]["MedalCountry"] :
                             i \in 1..Len(nb["medals_df"].rows)}
        IN  /\ Len(up.rows) = 3 * Cardinality(countries)
            /\ Len(pv.rows) = Cardinality(countries)
            /\ \A k \in 1..Len(pv.rows), m \in 1..3 :
                 /\ up.rows[3 * (k - 1) + m].Medal = MedalTypes[m]
                 /\ up.rows[3 * (k - 1) + m].MedalCountry = pv.rows[k]["MedalCountry"]
            /\ \A k \in 1..Len(pv.rows), m \in 1..3 :
                 LET c == pv.rows[k]["MedalCountry"]
                     back == SelectSeq(up.rows, LAMBDA u :
                                 u.MedalCountry = c /\ u.Medal = MedalTypes[m])
                     orig == Partition(nb["medals_df"], "MedalCountry", c)
                 IN  /\ SumSeq([i \in 1..Len(back) |-> back[i].Count])
                          = pv.rows[k][MedalTypes[m]]
                     /\ pv.rows[k][MedalTypes[m]]
                          = SumSeq([i \in 1..Len(orig) |-> orig[i][MedalTypes[m]]])

C8_Witness ==
    /\ Past("Pivot", "")
    /\ Len(nb["pivot_df"].rows) = 2
    /\ Len(nb["medals_df"].rows) = 3
    /\ \E k \in 1..2 : nb["pivot_df"].rows[k]["Gold"] = 2

RawMedals == files["/mnt/raw-data/Medals.csv"].rows

AllEqual(s) == \A i, j \in 1..Len(s) : s[i] = s[j]

\* The country has one row in the cleaned table, count 1 and Rank 1.
CollapsesToOneRow(c) ==
    /\ Len(Partition(nb["medals_df"], "MedalCountry", c)) = 1
    /\ \E i \in 1..Len(nb["medals_per_country"].rows) :
         nb["medals_per_country"].rows[i] = ("MedalCountry" :> c) @@ ("count" :> 1)
    /\ LET rk == Partition(nb["ranked_df"], "MedalCountry", c)
       IN  Len(rk) = 1 /\ rk[1]["Rank"] = 1

\* C9 as stated: a country all of whose raw rows are exact duplicates of one
\* another has one cleaned row, count 1 in medals_per_country and Rank 1.
C9_DuplicatesCollapse ==
    Past("Window", "") =>
        \A c \in {RawMedals[i]["TeamCountry"] : i \in 1..Len(RawMedals)} \ {NullS} :
            AllEqual(SelectSeq(RawMedals, LAMBDA r : r["TeamCountry"] = c))
              => CollapsesToOneRow(c)

\* The raw rows that cleaning puts under country c: a null TeamCountry
\* counts as "Unknown".
RawRowsUnder(c) ==
    SelectSeq(RawMedals, LAMBDA r :
        r["TeamCountry"] = c \/ (c = "Unknown" /\ r["TeamCountry"] = NullS))

\* C9 amended: a country all of whose raw rows, the rows with a null
\* TeamCountry counted as rows of "Unknown", are exact duplicates of one
\* another has one cleaned row, count 1 in medals_per_country and Rank 1.
C9_DuplicatesCollapseCountingNulls ==
    Past("Window", "") =>
        \A c \in {nb["medals_df"].rows[i]["MedalCountry"] :
                     i \in 1..Len(nb["medals_df"].rows)} :
            AllEqual(RawRowsUnder(c)) => CollapsesToOneRow(c)

C9_Witness ==
    /\ Past("Window", "")
    /\ Len(RawMedals) = 3
    /\ Len(RawRowsUnder("USA")) = 2
    /\ AllEqual(RawRowsUnder("USA"))
    /\ CollapsesToOneRow("USA")
    /\ Len(nb["medals_df"].rows) = 2

EnrichCols == {"Region", "UpperCountry"}

\* C10: within a run, a confirmed-data output is written only after all
\* five cleansed-data outputs; Region and UpperCountry are columns of the
\* confirmed athletes output, and of neither the cleansed Athletes output
\* nor the confirmed athletes_medals output.
C10_CleansedBeforeConfirmed ==
    /\ writtenThisRun \cap ConfirmedPaths # {} => CleansedPaths \subseteq writtenThisRun
    /\ "/mnt/confirmed-data/athletes_df" \in writtenThisRun
         => EnrichCols \subseteq storage["/mnt/confirmed-data/athletes_df"].cols
    /\ "/mnt/cleansed-data/Athletes.parquet" \in writtenThisRun
         => EnrichCols \cap storage["/mnt/cleansed-data/Athletes.parquet"].cols = {}
    /\ "/mnt/confirmed-data/athletes_medals_df" \in writtenThisRun
         => EnrichCols \cap storage["/mnt/confirmed-data/athletes_medals_df"].cols = {}

C10_Witness ==
    /\ Done
    /\ writtenThisRun = OutputPaths
    /\ EnrichCols \subseteq storage["/mnt/confirmed-data/athletes_df"].cols
    /\ storage["/mnt/confirmed-data/athletes_medals_df"].cols
         = AthleteKeyCols \cup nb["medals_df"].cols

=============================================================================
